---- MODULE Spec2Model ----
(***************************************************************************)
(* A model of the block storage adapters (in-memory and file-backed), of   *)
(* the B+ tree built over them and of the Path-ORAM engine.                *)
(*                                                                         *)
(* A block of bytes is a record [size, body]: size is the number of bytes  *)
(* and body the words it starts with, its trailing zero bytes dropped, so  *)
(* that a zero-filled block has the body << >>.                            *)
(***************************************************************************)
EXTENDS Integers, Sequences, FiniteSets, TLC

VARIABLES
    adapter,    \* the storage adapter object (BPlusTree::AbsStorageAdapter)
    ret,        \* what the last adapter / tree call was given and returned
    hist,       \* history of the adapter calls (sessions, addresses handed out, values set)
    tree,       \* the Tree object over the adapter
    oram,       \* the ORAM object: its storage, position map and stash
    oret        \* what the last ORAM call was given and returned, and the payloads put so far

vars == <<adapter, ret, hist, tree, oram, oret>>

-----------------------------------------------------------------------------
(* Bounds of the model *)

\* malloc calls per session of an adapter
MaxMalloc == 2
\* distinct payloads handed to set
MaxData == 2
\* sessions of one file (1 = the truncating one, later ones reopen it)
MaxSessions == 2
\* calls made on one adapter over all its sessions
MaxCalls == 5

-----------------------------------------------------------------------------
(* Constants of the program *)

\* BLOCK_SIZE of the storage adapter tests
StorageBlockSize == 32
\* the sentinel address (declared in storage-adapter.hpp)
EMPTY == 0
\* the in-memory adapter's meta address (declared in storage-adapter.hpp)
META == 1
\* the in-memory adapter's locationCounter initializer (declared in storage-adapter.hpp)
InitialLocationCounter == 2

-----------------------------------------------------------------------------
(* Bytes *)

Min(a, b) == IF a < b THEN a ELSE b
Max(a, b) == IF a > b THEN a ELSE b

\* drop the trailing zero words of a sequence of words
RECURSIVE Strip(_)
Strip(ws) ==
    IF ws = << >> THEN << >>
    ELSE IF ws[Len(ws)] = 0 THEN Strip(SubSeq(ws, 1, Len(ws) - 1))
    ELSE ws

\* bytes of `size` bytes that start with the words ws and are zero after them
Bytes(size, ws) == [size |-> size, body |-> Strip(ws)]

\* a default-constructed `bytes`
NoBytes == Bytes(0, << >>)

\* bytesFromNumber(empty()) resized to blockSize
emptyBlock(blockSize) == Bytes(blockSize, <<EMPTY>>)

\* what an uninitialized placeholder[blockSize] may hold
Garbage(blockSize) == {Bytes(blockSize, <<d>>) : d \in 0..MaxData}

-----------------------------------------------------------------------------
(* The storage adapters as operators on the adapter object *)

meta(st) == IF st.kind = "mem" THEN META ELSE st.blockSize

empty(st) == EMPTY

\* TRUE when checkLocation returns, FALSE when it throws
checkLocationMutStrict(st, location) ==
    ~(location >= st.locationCounter \/
        (st.kind = "file" /\ location % st.blockSize # 0))
checkLocation(st, location) ==
    IF st.kind = "mem"
    THEN ~(location >= st.locationCounter)
    ELSE ~(location > st.locationCounter \/ location % st.blockSize # 0)

\* the file after a write of one block at byte offset `location` (holes read as zeros)
WriteAt(file, blockSize, location, body) ==
    LET idx    == (location \div blockSize) + 1
        padded == file \o [i \in 1..Max(0, idx - Len(file)) |-> << >>]
    IN  SubSeq(padded, 1, idx - 1) \o <<body>> \o SubSeq(padded, idx + 1, Len(padded))

\* set: [st |-> the adapter afterwards, ok |-> FALSE when it throws]
setMutWriteFirst(st, location, data) ==
    IF ~checkLocation(st, location)
    THEN [st |-> st, ok |-> FALSE]
    ELSE [st |-> IF st.kind = "mem"
                 THEN [st EXCEPT !.memory = (location :> data) @@ @]
                 ELSE [st EXCEPT !.file = WriteAt(@, st.blockSize, location, data.body)],
          ok |-> data.size = st.blockSize]
setMutNoStore(st, location, data) ==
    IF data.size # st.blockSize
    THEN [st |-> st, ok |-> FALSE]
    ELSE [st |-> st, ok |-> checkLocation(st, location)]
set(st, location, data) ==
    IF data.size # st.blockSize
    THEN [st |-> st, ok |-> FALSE]
    ELSE IF ~checkLocation(st, location)
    THEN [st |-> st, ok |-> FALSE]
    ELSE IF st.kind = "mem"
    THEN [st |-> [st EXCEPT !.memory = (location :> data) @@ @], ok |-> TRUE]
    ELSE IF st.failbit
    THEN [st |-> st, ok |-> TRUE]   \* seekp and write do nothing on a failed stream
    ELSE [st |-> [st EXCEPT !.file = WriteAt(@, st.blockSize, location, data.body)],
          ok |-> TRUE]

\* get with an empty response: the set of its possible outcomes
\* [st |-> the adapter afterwards, ok |-> FALSE when it throws, out |-> response]
get(st, location) ==
    IF ~checkLocation(st, location)
    THEN {[st |-> st, ok |-> FALSE, out |-> NoBytes]}
    ELSE IF st.kind = "mem"
    THEN IF location \in DOMAIN st.memory
         THEN {[st |-> st, ok |-> TRUE, out |-> st.memory[location]]}
         ELSE {[st |-> [st EXCEPT !.memory = (location :> NoBytes) @@ @],
                ok |-> TRUE, out |-> NoBytes]}
    ELSE IF st.failbit
    THEN {[st |-> st, ok |-> TRUE, out |-> g] : g \in Garbage(st.blockSize)}
    ELSE IF (location \div st.blockSize) + 1 <= Len(st.file)
    THEN {[st |-> st, ok |-> TRUE,
           out |-> Bytes(st.blockSize, st.file[(location \div st.blockSize) + 1])]}
    ELSE \* read past the end of the file: nothing is read, the stream fails
         {[st |-> [st EXCEPT !.failbit = TRUE], ok |-> TRUE, out |-> g] :
              g \in Garbage(st.blockSize)}

\* malloc: [st |-> the adapter afterwards, address |-> the address returned]
mallocMutSame(st) ==
    [st |-> st, address |-> st.locationCounter]
malloc(st) ==
    IF st.kind = "mem"
    THEN [st |-> [st EXCEPT !.locationCounter = @ + 1], address |-> st.locationCounter]
    ELSE [st |-> [st EXCEPT !.locationCounter = @ + st.blockSize],
          address |-> st.locationCounter + st.blockSize]

\* InMemoryStorageAdapter(blockSize)
InMemoryStorageAdapter(blockSize) ==
    LET st0 == [kind |-> "mem", blockSize |-> blockSize, memory |-> << >>,
                file |-> << >>, locationCounter |-> InitialLocationCounter,
                failbit |-> FALSE]
    IN  set(st0, meta(st0), emptyBlock(blockSize)).st

\* FileSystemStorageAdapter(blockSize, filename, override), `file` being what the
\* file of that name holds (blocks of blockSize bytes) when it is opened
FileSystemStorageAdapterMutAlwaysInit(blockSize, file, override) ==
    LET opened == IF override THEN << >> ELSE file
        st0 == [kind |-> "file", blockSize |-> blockSize, memory |-> << >>,
                file |-> opened,
                locationCounter |-> IF override THEN 2 * blockSize
                                    ELSE Len(opened) * blockSize,
                failbit |-> FALSE]
    IN  set(st0, meta(st0), emptyBlock(blockSize)).st
FileSystemStorageAdapter(blockSize, file, override) ==
    LET opened == IF override THEN << >> ELSE file
        st0 == [kind |-> "file", blockSize |-> blockSize, memory |-> << >>,
                file |-> opened,
                locationCounter |-> IF override THEN 2 * blockSize
                                    ELSE Len(opened) * blockSize,
                failbit |-> FALSE]
    IN  IF override THEN set(st0, meta(st0), emptyBlock(blockSize)).st ELSE st0

-----------------------------------------------------------------------------
(* Calls on the adapter *)

\* the objects that a specification does not exercise
NoTree == [open |-> FALSE]
NoOram == [built |-> FALSE]
NoOret == [op |-> "none"]
NoAdapter == [kind |-> "none"]

\* the addresses handed to get and set: for the in-memory adapter every counter
\* value up to one that no malloc can have returned; for the file adapter every
\* block-aligned offset up to one beyond the furthest end cursor, and the
\* unaligned address of the adapter tests
AddrBlocks == 0..(MaxSessions * (MaxMalloc + 1) + 2)
Addresses(st) ==
    IF st.kind = "mem"
    THEN 0..(InitialLocationCounter + MaxMalloc)
    ELSE {5} \cup {k * st.blockSize : k \in AddrBlocks}

\* the data handed to set: blocks of the right size, and one byte short or long
SetInputs(st) ==
    {Bytes(st.blockSize, <<d>>) : d \in 1..MaxData}
        \cup {Bytes(st.blockSize - 1, <<1>>), Bytes(st.blockSize + 1, <<1>>)}

\* session: 1 for the adapter first constructed, +1 for each reopening
\* allocated: the addresses malloc returned in this session, in the order returned
\* allocatedOld: the set of addresses malloc returned in earlier sessions
\* written: for the addresses malloc returned, the data of the last set that returned
\* gets, calls: how many get calls / calls were made (gets counted up to 2)
NoHist == [session |-> 1, allocated |-> << >>, allocatedOld |-> {}, written |-> << >>,
           gets |-> 0, calls |-> 0]

Range(seq) == {seq[i] : i \in DOMAIN seq}

\* every address malloc has returned, in this session or an earlier one
Allocated == Range(hist.allocated) \cup hist.allocatedOld

NoRet == [op |-> "new", address |-> EMPTY, data |-> NoBytes, ok |-> TRUE]

InitStore ==
    /\ adapter \in {InMemoryStorageAdapter(StorageBlockSize),
                    FileSystemStorageAdapter(StorageBlockSize, << >>, TRUE)}
    /\ ret = NoRet
    /\ hist = NoHist
    /\ tree = NoTree
    /\ oram = NoOram
    /\ oret = NoOret

Malloc ==
    /\ hist.calls < MaxCalls
    /\ Len(hist.allocated) < MaxMalloc
    /\ LET r == malloc(adapter)
       IN  /\ adapter' = r.st
           /\ ret' = [op |-> "malloc", address |-> r.address, data |-> NoBytes, ok |-> TRUE]
           /\ hist' = [hist EXCEPT !.allocated = Append(@, r.address), !.calls = @ + 1]
    /\ UNCHANGED <<tree, oram, oret>>

Set ==
    /\ hist.calls < MaxCalls
    /\ \E a \in Addresses(adapter), data \in SetInputs(adapter) :
         LET r == set(adapter, a, data)
         IN  /\ adapter' = r.st
             /\ ret' = [op |-> "set", address |-> a, data |-> data, ok |-> r.ok]
             /\ hist' = [hist EXCEPT
                            !.written = IF r.ok /\ a \in Allocated
                                        THEN (a :> data) @@ @ ELSE @,
                            !.calls = @ + 1]
    /\ UNCHANGED <<tree, oram, oret>>

Get ==
    /\ hist.calls < MaxCalls
    /\ \E a \in Addresses(adapter) : \E r \in get(adapter, a) :
         /\ adapter' = r.st
         /\ ret' = [op |-> "get", address |-> a, data |-> r.out, ok |-> r.ok]
         /\ hist' = [hist EXCEPT !.gets = Min(@ + 1, 2), !.calls = @ + 1]
    /\ UNCHANGED <<tree, oram, oret>>

\* the adapter is destroyed (the file closed) and the same file opened again
\* with override = false
Reopen ==
    /\ hist.calls < MaxCalls
    /\ adapter.kind = "file"
    /\ hist.session < MaxSessions
    /\ adapter' = FileSystemStorageAdapter(adapter.blockSize, adapter.file, FALSE)
    /\ ret' = [op |-> "reopen", address |-> EMPTY, data |-> NoBytes, ok |-> TRUE]
    /\ hist' = [hist EXCEPT !.session = @ + 1,
                            !.allocated = << >>,
                            !.allocatedOld = @ \cup Range(hist.allocated),
                            !.calls = @ + 1]
    /\ UNCHANGED <<tree, oram, oret>>

NextStore == Malloc \/ Set \/ Get \/ Reopen

SpecStore == InitStore /\ [][NextStore]_vars

-----------------------------------------------------------------------------
(* Properties of the storage adapters, under SpecStore *)

\* C4: on both adapters, a get (with an empty response) of an address that malloc
\* returned and that a set has written yields the data of the last such set,
\* whatever calls were made before, in between and on other addresses.
C4_RoundTrip ==
    (ret.op = "get" /\ ret.address \in DOMAIN hist.written)
        => (ret.ok /\ ret.data = hist.written[ret.address])

\* C5: set and get raise for every address that no malloc returned and that is not
\* meta(), and succeed (set with data of blockSize bytes) for every address that a
\* malloc returned.
C5_UnallocatedFails ==
    /\ (ret.op \in {"get", "set"} /\ ret.address \notin Allocated \cup {meta(adapter)})
          => ~ret.ok
    /\ (ret.op = "get" /\ ret.address \in Allocated) => ret.ok
    /\ (ret.op = "set" /\ ret.address \in Allocated /\ ret.data.size = adapter.blockSize)
          => ret.ok

\* C6 (i): after reopening the file, a get returns the last value set at an address
\* written before (the get being the first one made on the file, so that the first
\* session consisted of malloc and set calls only).
C6_ReadableAfterReopen ==
    (hist.session >= 2 /\ ret.op = "get" /\ hist.gets = 1
        /\ ret.address \in DOMAIN hist.written)
        => (ret.ok /\ ret.data = hist.written[ret.address])

\* C6 (ii): an address returned by malloc after the reopening differs from every
\* address returned by malloc before it.
C6_NoCollision ==
    hist.session >= 2 => Range(hist.allocated) \cap hist.allocatedOld = {}

\* C6: file persistence, (i) and (ii).
C6_FilePersistence == C6_ReadableAfterReopen /\ C6_NoCollision

\* C8: on both adapters set raises whenever the data is not blockSize bytes long,
\* at every address, and a set that raises leaves the adapter (every stored block
\* and the allocation cursor) as it was.
C8_BadSize ==
    [][ret'.op = "set" =>
          /\ (ret'.data.size # adapter.blockSize => ~ret'.ok)
          /\ (~ret'.ok => adapter' = adapter)]_vars

\* C8 witness: a set of a block one byte short or long at an allocated address raised.
C8_Witness ==
    /\ ret.op = "set" /\ ~ret.ok
    /\ ret.data.size # adapter.blockSize
    /\ ret.address \in Range(hist.allocated)
    /\ adapter.kind = "file"

\* C9: the file-backed malloc returns the end cursor as it was before the call and
\* advances it by blockSize; the first malloc after a truncating construction
\* returns 2 * blockSize.
C9_MallocReturnsPreviousEnd ==
    (adapter.kind = "file" /\ ret.op = "malloc")
        => /\ ret.address + adapter.blockSize = adapter.locationCounter
           /\ (hist.session = 1 /\ Len(hist.allocated) = 1)
                 => ret.address = 2 * adapter.blockSize

\* C10: the addresses an adapter's malloc returns are strictly increasing, and none
\* of them is empty() or meta().
C10_StrictlyIncreasing ==
    /\ \A i, j \in DOMAIN hist.allocated :
          i < j => hist.allocated[i] < hist.allocated[j]
    /\ \A i \in DOMAIN hist.allocated :
          hist.allocated[i] \notin {empty(adapter), meta(adapter)}

\* C10 witness: an adapter has returned MaxMalloc addresses (after a reopening too).
C10_Witness ==
    /\ Len(hist.allocated) = MaxMalloc
    /\ ret.op = "malloc"
    /\ hist.session = 2

\* C11: on both adapters a get (with an empty response) of meta() or of an address
\* that malloc returned, written or not, returns and leaves exactly blockSize bytes
\* in the response.
C11_WholeBlock ==
    (ret.op = "get" /\ ret.address \in Allocated \cup {meta(adapter)})
        => (ret.ok /\ ret.data.size = adapter.blockSize)

\* what a get of meta() can deliver
MetaReads(st) == {r.out : r \in get(st, meta(st))}

\* C17: right after the construction (in memory, or of a truncated file) the meta
\* block holds EMPTY; set (of a block of blockSize bytes) and get at meta() return
\* without raising in every state, with no malloc before; and a malloc, or a set or
\* get at another address, leaves the content the meta block reads as unchanged.
C17_MetaBlock ==
    /\ MetaReads(adapter) = {emptyBlock(adapter.blockSize)}
    /\ [][/\ (ret'.op = "get" /\ ret'.address = meta(adapter)) => ret'.ok
          /\ (ret'.op = "set" /\ ret'.address = meta(adapter)
                /\ ret'.data.size = adapter.blockSize) => ret'.ok
          /\ (ret'.op = "malloc"
                \/ (ret'.op \in {"get", "set"} /\ ret'.address # meta(adapter)))
               => MetaReads(adapter') = MetaReads(adapter)]_vars

-----------------------------------------------------------------------------
(* The B+ tree over a storage adapter *)

\* a block size of the tree tests
TreeBlockSize == 64
\* sizeof(number)
wordSize == 8
\* the tag bytes of a node block and of a data block
NodeBlock == 1
DataBlock == 2
\* the common length of the values of a batch: one word
ValueSize == wordSize

\* keys of a batch are 1..MaxKey, a batch holds up to MaxLen pairs
MaxKey == 3
MaxLen == 10

\* the fanout of a node block
Fanout(blockSize) == (blockSize - 1 - wordSize) \div (2 * wordSize)

\* the i-th word of a block after its leading ones (zero beyond the body)
Word(block, i) == IF i <= Len(block.body) THEN block.body[i] ELSE 0

\* the block stored at an address (the tree reads blocks that were written)
ReadBlock(st, address) == (CHOOSE r \in get(st, address) : TRUE).out

\* (DATA, nextAddr, key, value), padded to blockSize
createDataBlock(st, next, key, value) ==
    Bytes(st.blockSize, <<DataBlock, next, key, value>>)

readDataBlock(block) ==
    [payload |-> Word(block, 4), key |-> Word(block, 3), next |-> Word(block, 2)]

\* the words key_1, child_1, ..., key_n, child_n
RECURSIVE PairWords(_)
PairWords(pairs) ==
    IF pairs = << >> THEN << >>
    ELSE <<pairs[1].key, pairs[1].address>> \o PairWords(Tail(pairs))

\* createNodeBlock: allocates a block and writes (NODE, n, pairs) to it
createNodeBlock(st, pairs) ==
    LET m == malloc(st)
    IN  [st |-> set(m.st, m.address,
                    Bytes(st.blockSize, <<NodeBlock, Len(pairs)>> \o PairWords(pairs))).st,
         address |-> m.address]

readNodeBlock(block) ==
    [i \in 1..Word(block, 2) |->
        [key |-> Word(block, 1 + 2 * i), address |-> Word(block, 2 + 2 * i)]]

\* checkType: the tag of the block at an address, "fail" for an unknown tag
checkType(st, address) ==
    LET tag == Word(ReadBlock(st, address), 1)
    IN  IF tag \in {NodeBlock, DataBlock} THEN tag ELSE -1

\* the largest key of a non-empty sequence of pairs
RECURSIVE MaxKeyOf(_)
MaxKeyOf(pairs) ==
    IF Len(pairs) = 1 THEN pairs[1].key
    ELSE Max(pairs[1].key, MaxKeyOf(Tail(pairs)))

\* pushLayer: one node block per chunk of Fanout pairs; the pairs
\* (largest key of the chunk, address of its node block) of the layer above
RECURSIVE pushLayer(_, _)
pushLayer(st, pairs) ==
    IF pairs = << >> THEN [st |-> st, pairs |-> << >>]
    ELSE LET n     == Min(Len(pairs), Fanout(st.blockSize))
             chunk == SubSeq(pairs, 1, n)
             node  == createNodeBlock(st, chunk)
             rest  == pushLayer(node.st, SubSeq(pairs, n + 1, Len(pairs)))
         IN  [st |-> rest.st,
              pairs |-> <<[key |-> MaxKeyOf(chunk), address |-> node.address]>>
                            \o rest.pairs]

\* the index layers: pushLayer until one entry is left
RECURSIVE IndexLayers(_, _)
IndexLayers(st, pairs) ==
    IF Len(pairs) <= 1 THEN [st |-> st, pairs |-> pairs]
    ELSE LET up == pushLayer(st, pairs) IN IndexLayers(up.st, up.pairs)

\* n blocks allocated one after the other
RECURSIVE MallocN(_, _)
MallocN(st, n) ==
    IF n = 0 THEN [st |-> st, addresses |-> << >>]
    ELSE LET m    == malloc(st)
             rest == MallocN(m.st, n - 1)
         IN  [st |-> rest.st, addresses |-> <<m.address>> \o rest.addresses]

\* the data blocks i, i-1, ..., 1 written right to left, each pointing to the next
RECURSIVE WriteDataLayer(_, _, _, _)
WriteDataLayer(st, data, addresses, i) ==
    IF i = 0 THEN st
    ELSE WriteDataLayer(
           set(st, addresses[i],
               createDataBlock(st,
                               IF i = Len(data) THEN empty(st) ELSE addresses[i + 1],
                               data[i].key, data[i].value)).st,
           data, addresses, i - 1)

\* descend from an address to a data block: at a node block through the first pair
\* whose key is >= key, the last pair when there is none
RECURSIVE Descend(_, _, _)
Descend(st, address, key) ==
    IF checkType(st, address) = NodeBlock /\ Word(ReadBlock(st, address), 2) > 0
    THEN LET pairs == readNodeBlock(ReadBlock(st, address))
             ge    == {i \in DOMAIN pairs : pairs[i].key >= key}
             pick  == IF ge = {} THEN Len(pairs)
                      ELSE CHOOSE i \in ge : \A j \in ge : i <= j
         IN  Descend(st, pairs[pick].address, key)
    ELSE address

\* the leftmost data block: descend through the first child of each node block
RECURSIVE Leftmost(_, _)
Leftmost(st, address) ==
    IF address = empty(st) THEN empty(st)
    ELSE IF checkType(st, address) = NodeBlock /\ Word(ReadBlock(st, address), 2) > 0
    THEN Leftmost(st, readNodeBlock(ReadBlock(st, address))[1].address)
    ELSE address

\* Tree(storage, data), v being the common length of the values of data: the tree
\* is written to the storage at once.
\* [st |-> the storage afterwards, ok |-> FALSE for "block size too small", tree]
TreeOfValues(st, data, v) ==
    IF st.blockSize < 1 + 3 * wordSize + v
    THEN [st |-> st, ok |-> FALSE, root |-> empty(st), leftmostDataBlock |-> empty(st)]
    ELSE LET blocks == MallocN(st, Len(data))
             layer0 == WriteDataLayer(blocks.st, data, blocks.addresses, Len(data))
             pairs0 == [i \in 1..Len(data) |->
                          [key |-> data[i].key, address |-> blocks.addresses[i]]]
             top    == IndexLayers(layer0, pairs0)
             root   == top.pairs[1].address
         IN  [st |-> set(top.st, meta(st), Bytes(st.blockSize, <<root>>)).st,
              ok |-> TRUE, root |-> root, leftmostDataBlock |-> blocks.addresses[1]]

\* Tree(storage, data) for a batch of values of ValueSize bytes
TreeFromData(st, data) == TreeOfValues(st, data, ValueSize)

\* Tree(storage): the root is the first word of the meta block
TreeFromStorage(st) ==
    LET root == Word(ReadBlock(st, meta(st)), 1)
    IN  [root |-> root, leftmostDataBlock |-> Leftmost(st, root)]

\* the payloads of the chain of data blocks from an address on whose key is `key`,
\* up to the first block with a larger key
RECURSIVE WalkPoint(_, _, _)
WalkPoint(st, address, key) ==
    IF address = empty(st) THEN << >>
    ELSE LET d == readDataBlock(ReadBlock(st, address))
         IN  IF d.key > key THEN << >>
             ELSE (IF d.key = key THEN <<d.payload>> ELSE << >>)
                      \o WalkPoint(st, d.next, key)

\* search(key, out): what is appended to out
search(st, t, key) ==
    IF t.root = empty(st) THEN << >>
    ELSE WalkPoint(st, Descend(st, t.root, key), key)

\* the payloads of the chain of data blocks from the first one with a key >= lo
\* on, up to the first block with a key > hi
RECURSIVE WalkRange(_, _, _, _)
WalkRange(st, address, lo, hi) ==
    IF address = empty(st) THEN << >>
    ELSE LET d == readDataBlock(ReadBlock(st, address))
         IN  IF d.key > hi THEN << >>
             ELSE (IF d.key >= lo THEN <<d.payload>> ELSE << >>)
                      \o WalkRange(st, d.next, lo, hi)

\* search(start, end, out): what is appended to out
searchRange(st, t, lo, hi) ==
    IF t.root = empty(st) THEN << >>
    ELSE WalkRange(st, Descend(st, t.root, lo), lo, hi)

-----------------------------------------------------------------------------
(* Calls on the tree *)

\* the batch with counts[k] pairs of key k, in key order, whose i-th value is i
RECURSIVE BatchKeys(_, _)
BatchKeys(counts, k) ==
    IF k > MaxKey THEN << >>
    ELSE [i \in 1..counts[k] |-> k] \o BatchKeys(counts, k + 1)

RECURSIVE Sum(_, _)
Sum(counts, k) == IF k > MaxKey THEN 0 ELSE counts[k] + Sum(counts, k + 1)

\* the sorted batches (duplicate keys allowed) of 1..MaxLen pairs
Batches ==
    {LET keys == BatchKeys(counts, 1)
     IN  [i \in 1..Len(keys) |-> [key |-> keys[i], value |-> i]] :
        counts \in {c \in [1..MaxKey -> 0..MaxLen] : Sum(c, 1) \in 1..MaxLen}}

\* the keys handed to search: those of the batches, one below and one above
Queries == 0..(MaxKey + 1)

\* the values of the pairs of a batch whose key is in [lo, hi], in the batch's order
RECURSIVE ValuesIn(_, _, _)
ValuesIn(data, lo, hi) ==
    IF data = << >> THEN << >>
    ELSE (IF lo <= data[1].key /\ data[1].key <= hi THEN <<data[1].value>> ELSE << >>)
             \o ValuesIn(Tail(data), lo, hi)

\* data: the batch the tree was built from; built: root and leftmostDataBlock at
\* the end of the build; reopened: the tree was opened over the existing storage;
\* op, lo, hi, before, out: the last search, the `out` given to it and `out` after it
InitTree ==
    /\ adapter \in {InMemoryStorageAdapter(TreeBlockSize),
                    FileSystemStorageAdapter(TreeBlockSize, << >>, TRUE)}
    /\ tree = [open |-> FALSE, root |-> EMPTY, leftmostDataBlock |-> EMPTY,
               data |-> << >>, built |-> [root |-> EMPTY, leftmostDataBlock |-> EMPTY],
               reopened |-> FALSE,
               op |-> "none", lo |-> 0, hi |-> 0, before |-> << >>, out |-> << >>]
    /\ ret = NoRet
    /\ hist = NoHist
    /\ oram = NoOram
    /\ oret = NoOret

\* make_unique<Tree>(storage, data)
Build ==
    /\ ~tree.open /\ tree.data = << >>
    /\ \E data \in Batches :
         LET t == TreeFromData(adapter, data)
         IN  /\ t.ok
             /\ adapter' = t.st
             /\ tree' = [tree EXCEPT !.open = TRUE, !.root = t.root,
                                     !.leftmostDataBlock = t.leftmostDataBlock,
                                     !.data = data,
                                     !.built = [root |-> t.root,
                                                leftmostDataBlock |-> t.leftmostDataBlock],
                                     !.op = "build"]
    /\ UNCHANGED <<ret, hist, oram, oret>>

\* tree.reset(); the file closed and opened again with override = false (a second
\* handle on the same storage for the in-memory adapter); make_unique<Tree>(storage)
OpenTree ==
    /\ tree.open /\ ~tree.reopened /\ tree.op = "build"
    /\ LET st == IF adapter.kind = "file"
                 THEN FileSystemStorageAdapter(adapter.blockSize, adapter.file, FALSE)
                 ELSE adapter
           t  == TreeFromStorage(st)
       IN  /\ adapter' = st
           /\ tree' = [tree EXCEPT !.root = t.root,
                                   !.leftmostDataBlock = t.leftmostDataBlock,
                                   !.reopened = TRUE, !.op = "open"]
    /\ UNCHANGED <<ret, hist, oram, oret>>

\* tree->search(key, out). A search changes neither the tree nor the storage: the
\* searches made after a search are those made before it, so each is taken right
\* after the build or the opening.
Search ==
    /\ tree.open /\ tree.op \in {"build", "open"}
    /\ \E key \in Queries, before \in {<< >>, <<0>>} :
         tree' = [tree EXCEPT !.op = "search", !.lo = key, !.hi = key,
                              !.before = before,
                              !.out = before \o search(adapter, tree, key)]
    /\ UNCHANGED <<adapter, ret, hist, oram, oret>>

\* tree->search(start, end, out)
SearchRange ==
    /\ tree.open /\ tree.op \in {"build", "open"}
    /\ \E lo \in Queries, hi \in Queries :
         tree' = [tree EXCEPT !.op = "range", !.lo = lo, !.hi = hi,
                              !.before = << >>,
                              !.out = searchRange(adapter, tree, lo, hi)]
    /\ UNCHANGED <<adapter, ret, hist, oram, oret>>

NextTree == Build \/ OpenTree \/ Search \/ SearchRange

SpecTree == InitTree /\ [][NextTree]_vars

\* C2: search(k, out) appends to out exactly the values of the pairs of the batch
\* whose key is k, in the batch's order, and nothing when no pair has the key k.
C2_PointSearch ==
    tree.op = "search"
        => tree.out = tree.before \o ValuesIn(tree.data, tree.lo, tree.lo)

\* C2 witness: a search found several values of one key behind a non-empty out, in
\* a tree of more than one index layer.
C2_Witness ==
    /\ tree.op = "search"
    /\ Len(tree.out) >= 3 /\ tree.before # << >>
    /\ Len(tree.data) > Fanout(adapter.blockSize) * Fanout(adapter.blockSize)
    /\ tree.lo > 1

C7_TreePersistence ==
    (tree.reopened /\ adapter.kind = "file")
        => /\ tree.root = tree.built.root
           /\ tree.root # empty(adapter)
           /\ Word(ReadBlock(adapter, meta(adapter)), 1) = tree.built.root
           /\ (tree.op = "range" /\ tree.lo = tree.data[1].key
                   /\ tree.hi = tree.data[Len(tree.data)].key)
                 => tree.out = [i \in 1..Len(tree.data) |-> tree.data[i].value]

\* C7 witness: the full range search on a reopened file-backed tree with index
\* layers returned the whole batch.
C7_Witness ==
    /\ tree.reopened /\ adapter.kind = "file"
    /\ tree.op = "range"
    /\ Len(tree.data) > Fanout(adapter.blockSize)
    /\ tree.lo = tree.data[1].key /\ tree.hi = tree.data[Len(tree.data)].key
    /\ tree.lo < tree.hi
    /\ Len(tree.out) = Len(tree.data)

\* the data blocks met by following next from an address, n of them at most:
\* checkType, readDataBlock, current = next
RECURSIVE ChainFrom(_, _, _)
ChainFrom(st, address, n) ==
    IF address = empty(st) \/ n = 0 THEN << >>
    ELSE LET d == readDataBlock(ReadBlock(st, address))
         IN  <<[type |-> checkType(st, address), key |-> d.key,
                payload |-> d.payload, next |-> d.next]>>
                 \o ChainFrom(st, d.next, n - 1)

\* C21: following next from leftmostDataBlock visits exactly the n data blocks of
\* the batch, (key, payload) equal to its pairs in order, keys non-decreasing, the
\* last next EMPTY; a tree opened over the storage has the leftmost block of the
\* build, the one reached from the root through the first children.
C21_DataLayer ==
    tree.open =>
        LET n     == Len(tree.data)
            chain == ChainFrom(adapter, tree.leftmostDataBlock, n + 1)
        IN  /\ Len(chain) = n
            /\ \A i \in 1..n :
                  /\ chain[i].type = DataBlock
                  /\ chain[i].key = tree.data[i].key
                  /\ chain[i].payload = tree.data[i].value
            /\ \A i \in 1..(n - 1) : chain[i].key <= chain[i + 1].key
            /\ chain[n].next = empty(adapter)
            /\ tree.reopened =>
                  /\ tree.leftmostDataBlock = tree.built.leftmostDataBlock
                  /\ tree.leftmostDataBlock = Leftmost(adapter, tree.root)

\* C21 witness: a tree of two index layers with a duplicate key, opened again over
\* the reopened file.
C21_Witness ==
    /\ tree.open /\ tree.reopened /\ tree.op = "open" /\ adapter.kind = "file"
    /\ Len(tree.data) > Fanout(adapter.blockSize) * Fanout(adapter.blockSize)
    /\ \E i \in 1..(Len(tree.data) - 1) : tree.data[i].key = tree.data[i + 1].key
    /\ Len(ChainFrom(adapter, tree.leftmostDataBlock, MaxLen + 1)) = Len(tree.data)

-----------------------------------------------------------------------------
(* Construction over the block sizes of the tests *)

\* the length of the values the tree tests generate
TestValueSize == 100

\* the block sizes of the tree tests: 4 * sizeof(number) and the test suite's cases
TreeBlockSizes == {4 * wordSize, 64, 128, 256}

\* the lengths of the values of a batch
ValueSizes == {wordSize, 2 * wordSize, TestValueSize}

InitBuild ==
    /\ adapter \in UNION {{InMemoryStorageAdapter(b),
                            FileSystemStorageAdapter(b, << >>, TRUE)} :
                              b \in TreeBlockSizes}
    /\ tree = [open |-> FALSE, op |-> "none", v |-> 0, data |-> << >>,
               root |-> EMPTY, leftmostDataBlock |-> EMPTY]
    /\ ret = NoRet
    /\ hist = NoHist
    /\ oram = NoOram
    /\ oret = NoOret

\* make_unique<Tree>(storage, data); open is FALSE when the constructor throws
\* "block size too small"
BuildOfValues ==
    /\ tree.op = "none"
    /\ \E data \in Batches, v \in ValueSizes :
         LET t == TreeOfValues(adapter, data, v)
         IN  /\ adapter' = t.st
             /\ tree' = [open |-> t.ok, op |-> "build", v |-> v, data |-> data,
                         root |-> t.root, leftmostDataBlock |-> t.leftmostDataBlock]
    /\ UNCHANGED <<ret, hist, oram, oret>>

NextBuild == BuildOfValues

SpecBuild == InitBuild /\ [][NextBuild]_vars

\* C12: the construction from a batch of values of length v fails with "block size
\* too small" if and only if blockSize < 1 + 3 * wordSize + v; it fails for the
\* block size 4 * wordSize and succeeds for the block sizes 64, 128 and 256 with
\* values of 100 bytes.
C12_BuildThreshold ==
    tree.op = "build"
        => /\ ~tree.open <=> adapter.blockSize < 1 + 3 * wordSize + tree.v
           /\ adapter.blockSize = 4 * wordSize => ~tree.open
           /\ (adapter.blockSize \in {64, 128, 256} /\ tree.v = TestValueSize)
                 => tree.open

-----------------------------------------------------------------------------
(* The consistency check of the tree *)

\* the addresses of the data blocks reachable from an address through node blocks,
\* left to right
RECURSIVE DataBlocks(_, _)
RECURSIVE DataBlocksOf(_, _, _)
DataBlocksOf(st, pairs, i) ==
    IF i > Len(pairs) THEN << >>
    ELSE DataBlocks(st, pairs[i].address) \o DataBlocksOf(st, pairs, i + 1)
DataBlocks(st, address) ==
    IF checkType(st, address) = NodeBlock
    THEN DataBlocksOf(st, readNodeBlock(ReadBlock(st, address)), 1)
    ELSE IF checkType(st, address) = DataBlock THEN <<address>>
    ELSE << >>

\* the node blocks reachable from an address, the address included
RECURSIVE NodeBlocks(_, _)
NodeBlocks(st, address) ==
    IF checkType(st, address) = NodeBlock
    THEN LET pairs == readNodeBlock(ReadBlock(st, address))
         IN  {address} \cup UNION {NodeBlocks(st, pairs[i].address) : i \in DOMAIN pairs}
    ELSE {}

\* the largest key of the data blocks reachable from an address (-1 when none is)
MaxReachable(st, address) ==
    LET blocks == DataBlocks(st, address)
        keys   == {readDataBlock(ReadBlock(st, blocks[i])).key : i \in DOMAIN blocks}
    IN  IF keys = {} THEN -1 ELSE CHOOSE k \in keys : \A j \in keys : j <= k

\* checkConsistency: the categories of the violations it finds, it throws when
\* there is one.
\* 1. the root's tag is NODE or DATA (or the tree is empty);
\* 2. every data block's nextAddr is EMPTY or points to a DATA block whose key is
\*    >= this block's key;
\* 3. every node block entry's child has a known tag and the entry's key is the
\*    largest key reachable through the child.
checkConsistency(st, t) ==
    IF t.root = empty(st) THEN {}
    ELSE IF checkType(st, t.root) = -1 THEN {"block type"}
    ELSE LET blocks == DataBlocks(st, t.root)
             nodes  == NodeBlocks(st, t.root)
             badNext(a) ==
                 LET d == readDataBlock(ReadBlock(st, a))
                 IN  /\ d.next # empty(st)
                     /\ \/ checkType(st, d.next) # DataBlock
                        \/ readDataBlock(ReadBlock(st, d.next)).key < d.key
             entries(a) == readNodeBlock(ReadBlock(st, a))
         IN  (IF \E i \in DOMAIN blocks : badNext(blocks[i])
              THEN {"data block"} ELSE {})
             \cup
             (IF \E a \in nodes : \E i \in DOMAIN entries(a) :
                    checkType(st, entries(a)[i].address) = -1
              THEN {"block type"} ELSE {})
             \cup
             (IF \E a \in nodes : \E i \in DOMAIN entries(a) :
                    /\ checkType(st, entries(a)[i].address) # -1
                    /\ entries(a)[i].key # MaxReachable(st, entries(a)[i].address)
              THEN {"key"} ELSE {})

\* a block with its i-th word replaced
WithWord(block, i, w) ==
    Bytes(block.size,
          [k \in 1..Max(i, Len(block.body)) |-> IF k = i THEN w ELSE Word(block, k)])

\* an unknown tag byte
BadTag == 255

\* storage->get(tree->root, root); root[0] = 0xff; storage->set(tree->root, root)
CorruptTag ==
    /\ tree.open /\ tree.op = "build" /\ ret.op = "new"
    /\ adapter' = set(adapter, tree.root,
                      WithWord(ReadBlock(adapter, tree.root), 1, BadTag)).st
    /\ ret' = [op |-> "corrupt", what |-> "tag", address |-> tree.root]
    /\ UNCHANGED <<tree, hist, oram, oret>>

\* the nextAddr of a data block that is not the last one is set to empty()
CorruptNext ==
    /\ tree.open /\ tree.op = "build" /\ ret.op = "new"
    /\ LET blocks == DataBlocks(adapter, tree.root)
       IN  \E i \in 1..(Len(blocks) - 1) :
             /\ adapter' = set(adapter, blocks[i],
                               WithWord(ReadBlock(adapter, blocks[i]), 2,
                                        empty(adapter))).st
             /\ ret' = [op |-> "corrupt", what |-> "next", address |-> blocks[i]]
    /\ UNCHANGED <<tree, hist, oram, oret>>

\* the key of a data block is overwritten with another value
CorruptKey ==
    /\ tree.open /\ tree.op = "build" /\ ret.op = "new"
    /\ LET blocks == DataBlocks(adapter, tree.root)
       IN  \E i \in DOMAIN blocks, key \in Queries :
             /\ key # readDataBlock(ReadBlock(adapter, blocks[i])).key
             /\ adapter' = set(adapter, blocks[i],
                               WithWord(ReadBlock(adapter, blocks[i]), 3, key)).st
             /\ ret' = [op |-> "corrupt", what |-> "key", address |-> blocks[i]]
    /\ UNCHANGED <<tree, hist, oram, oret>>

\* tree->checkConsistency(): failed is empty when it returns
CheckConsistency ==
    /\ tree.open /\ tree.op = "build" /\ ret.op \in {"new", "corrupt"}
    /\ ret' = [op |-> "check",
               what |-> IF ret.op = "corrupt" THEN ret.what ELSE "none",
               address |-> ret.address,
               failed |-> checkConsistency(adapter, tree)]
    /\ UNCHANGED <<adapter, tree, hist, oram, oret>>

NextCheck == Build \/ CorruptTag \/ CorruptNext \/ CorruptKey \/ CheckConsistency

SpecCheck == InitTree /\ [][NextCheck]_vars

\* C13: checkConsistency succeeds on a freshly built tree, and on a built tree it
\* fails with "block type" once the root's tag is an unknown one, with "data block"
\* once the nextAddr of a data block that is not the last is EMPTY, and with "key"
\* once the key of a data block is overwritten with another value.
C13_ConsistencyCheck ==
    ret.op = "check"
        => /\ ret.what = "none" => ret.failed = {}
           /\ ret.what = "tag"  => "block type" \in ret.failed
           /\ ret.what = "next" => "data block" \in ret.failed
           /\ ret.what = "key"  => "key" \in ret.failed

-----------------------------------------------------------------------------
(* The index layers of the tree *)

\* the sorted sequences of pairs handed to pushLayer: the keys of a batch, the
\* address of the i-th pair being i * AddressStep
AddressStep == 1000
LayerInputs ==
    {[i \in 1..Len(data) |-> [key |-> data[i].key, address |-> i * AddressStep]] :
        data \in Batches}

\* tree = make_unique<Tree>(storage), an empty tree over the new storage;
\* pushed = tree->pushLayer(pairs)
PushLayer ==
    /\ ~tree.open /\ ret.op = "new"
    /\ \E pairs \in LayerInputs :
         LET r == pushLayer(adapter, pairs)
         IN  /\ adapter' = r.st
             /\ ret' = [op |-> "pushLayer", pairs |-> pairs, pushed |-> r.pairs]
    /\ tree' = [tree EXCEPT !.open = TRUE, !.op = "pushLayer"]
    /\ UNCHANGED <<hist, oram, oret>>

NextLayers == PushLayer \/ Build

SpecLayers == InitTree /\ [][NextLayers]_vars

\* the concatenation of the sequences of a sequence
RECURSIVE Flatten(_)
Flatten(seqs) == IF seqs = << >> THEN << >> ELSE Head(seqs) \o Flatten(Tail(seqs))

\* C22: pushLayer writes node blocks that together hold every input pair once and
\* in order, Fanout pairs to a node and fewer in the last one only, and emits for
\* each node (largest key in the node, address of the node); in a built tree every
\* node entry's key is the largest key reachable through its child, and the meta
\* block holds the one root.
C22_IndexLayers ==
    /\ ret.op = "pushLayer" =>
          LET pushed == ret.pushed
              node(i) == readNodeBlock(ReadBlock(adapter, pushed[i].address))
              F      == Fanout(adapter.blockSize)
          IN  /\ Flatten([i \in 1..Len(pushed) |-> node(i)]) = ret.pairs
              /\ \A i \in 1..Len(pushed) :
                    /\ checkType(adapter, pushed[i].address) = NodeBlock
                    /\ Len(node(i)) \in 1..F
                    /\ i < Len(pushed) => Len(node(i)) = F
                    /\ pushed[i].key = MaxKeyOf(node(i))
              /\ \A i, j \in 1..Len(pushed) :
                    i # j => pushed[i].address # pushed[j].address
    /\ tree.op = "build" =>
          /\ \A a \in NodeBlocks(adapter, tree.root) :
                LET entries == readNodeBlock(ReadBlock(adapter, a))
                IN  \A i \in DOMAIN entries :
                      entries[i].key = MaxReachable(adapter, entries[i].address)
          /\ tree.root # empty(adapter)
          /\ Word(ReadBlock(adapter, meta(adapter)), 1) = tree.root
          /\ Len(DataBlocks(adapter, tree.root)) = Len(tree.data)

\* C22 witness: pushLayer wrote several full nodes and a last one with fewer pairs,
\* a key being shared by two nodes.
C22_Witness ==
    /\ ret.op = "pushLayer"
    /\ Len(ret.pushed) >= 3
    /\ Len(ret.pairs) % Fanout(adapter.blockSize) # 0
    /\ \E i \in 1..(Len(ret.pushed) - 1) : ret.pushed[i].key = ret.pushed[i + 1].key

-----------------------------------------------------------------------------
(* Path-ORAM *)

\* ORAM constructor arguments logCapacity and Z
LogCapacity == 2
BucketSize == 1
\* the logical ids the model accesses are 0..MaxId (those below `blocks`)
MaxId == 2
\* accesses made on one ORAM
MaxAccesses == 3

\* (ulong)-1, the id of an empty slot
ULONG_MAX == -1

\* getRandomBlock(dataSize): the payload of an empty slot; readPath drops it
\* unread, so one value stands for every random payload
getRandomBlock == 0

\* 1 << n
Shl(n) == 2 ^ n

\* the stash adapter: a map from id to payload
stashAdd(stash, id, data) == (id :> data) @@ stash
stashUpdate(stash, id, data) == (id :> data) @@ stash
stashRemove(stash, id) == [b \in (DOMAIN stash) \ {id} |-> stash[b]]

\* the leaves getRandomULong(1 << (height - 1)) draws from
Leaves(o) == 0..(Shl(o.height - 1) - 1)

bucketForLevelLeaf(o, level, leaf) ==
    (leaf + Shl(o.height - 1)) \div Shl(o.height - 1 - level)

canIncludeMutLeafOnly(o, pathLeaf, blockPosition, level) ==
    level = o.height - 1 /\
        bucketForLevelLeaf(o, level, pathLeaf) = bucketForLevelLeaf(o, level, blockPosition)
canIncludeMutAnyLevel(o, pathLeaf, blockPosition, level) ==
    bucketForLevelLeaf(o, 0, pathLeaf) = bucketForLevelLeaf(o, 0, blockPosition)
canInclude(o, pathLeaf, blockPosition, level) ==
    bucketForLevelLeaf(o, level, pathLeaf) = bucketForLevelLeaf(o, level, blockPosition)

\* the slot addresses readPath reads, in the order it reads them
PathSlots(o, leaf) ==
    [k \in 1..(o.height * o.Z) |->
        bucketForLevelLeaf(o, (k - 1) \div o.Z, leaf) * o.Z + ((k - 1) % o.Z)]

\* readPath: the stash after the slots `slots` were read from k on
RECURSIVE ReadSlots(_, _, _, _)
ReadSlots(storage, stash, slots, k) ==
    IF k > Len(slots) THEN stash
    ELSE LET blk == storage[slots[k]]
         IN  ReadSlots(storage,
                       IF blk.id # ULONG_MAX THEN stashAdd(stash, blk.id, blk.data)
                       ELSE stash,
                       slots, k + 1)

readPath(o, leaf) ==
    [o EXCEPT !.stash = ReadSlots(o.storage, o.stash, PathSlots(o, leaf), 1)]

\* the sequences of n distinct members of S
Picks(S, n) ==
    {c \in [1..n -> S] : \A i, j \in 1..n : i # j => c[i] # c[j]}

\* writePath from `level` down to 0: the set of the possible [storage, deleted],
\* `current` being the ids left in currentStash and `deleted` those of toDelete.
\* The iteration order of the stash map is not specified, so the entries a level
\* takes (the first Z that pass canInclude) are any min(Z, #passing) of the passing
\* ones, pushed to toInsert in any order.
RECURSIVE WriteLevels(_, _, _, _, _, _)
WriteLevels(o, storage, current, deleted, leaf, level) ==
    IF level < 0 THEN {[storage |-> storage, deleted |-> deleted]}
    ELSE LET passing == {e \in current : canInclude(o, o.map[e], leaf, level)}
             n       == Min(Cardinality(passing), o.Z)
             bucket  == bucketForLevelLeaf(o, level, leaf)
         IN  UNION {
               LET picked  == {toInsert[i] : i \in 1..n}
                   written == [a \in DOMAIN storage |->
                                IF a \div o.Z = bucket
                                THEN IF a % o.Z < n
                                     THEN \* slot i takes toInsert.back() after i pops
                                          [id |-> toInsert[n - (a % o.Z)],
                                           data |-> o.stash[toInsert[n - (a % o.Z)]]]
                                     ELSE [id |-> ULONG_MAX, data |-> getRandomBlock]
                                ELSE storage[a]]
               IN  WriteLevels(o, written, current \ picked, deleted \cup picked,
                               leaf, level - 1)
               : toInsert \in Picks(passing, n)}

\* writePath: the possible ORAMs afterwards
writePathMutKeepStash(o, leaf) ==
    {[o EXCEPT !.storage = w.storage] :
        w \in WriteLevels(o, o.storage, DOMAIN o.stash, {}, leaf, o.height - 1)}
writePath(o, leaf) ==
    {[o EXCEPT !.storage = w.storage,
               !.stash = [b \in (DOMAIN o.stash) \ w.deleted |-> o.stash[b]]] :
        w \in WriteLevels(o, o.storage, DOMAIN o.stash, {}, leaf, o.height - 1)}

accessMutRemapLast(o, read, block, data) ==
    LET previousPosition == o.map[block]
    IN  UNION {
          LET pathRead == readPath(o, previousPosition)
              updated  == IF ~read
                          THEN [pathRead EXCEPT !.stash = stashUpdate(@, block, data)]
                          ELSE pathRead
          IN  IF block \notin DOMAIN updated.stash
              THEN {[o |-> [updated EXCEPT !.map[block] = leaf], ok |-> FALSE,
                     returned |-> getRandomBlock]}
              ELSE {[o |-> [w EXCEPT !.map[block] = leaf], ok |-> TRUE,
                     returned |-> updated.stash[block]] :
                        w \in writePath(updated, previousPosition)}
          : leaf \in Leaves(o)}
\* access: the set of its outcomes [o |-> the ORAM afterwards, ok |-> FALSE when
\* stash->get throws, returned |-> the payload returned]
access(o, read, block, data) ==
    LET previousPosition == o.map[block]
    IN  UNION {
          LET remapped == [o EXCEPT !.map[block] = leaf]
              pathRead == readPath(remapped, previousPosition)
              updated  == IF ~read
                          THEN [pathRead EXCEPT !.stash = stashUpdate(@, block, data)]
                          ELSE pathRead
          IN  IF block \notin DOMAIN updated.stash
              THEN {[o |-> updated, ok |-> FALSE, returned |-> getRandomBlock]}
              ELSE {[o |-> w, ok |-> TRUE, returned |-> updated.stash[block]] :
                        w \in writePath(updated, previousPosition)}
          : leaf \in Leaves(o)}

\* ORAM(logCapacity, blockSize, Z, storage, map, stash): the possible objects
ORAM(logCapacity, Z) ==
    LET height  == logCapacity
        buckets == Shl(height)
        blocks  == buckets * Z
    IN  {[built |-> TRUE, height |-> height, Z |-> Z, buckets |-> buckets,
          blocks |-> blocks,
          storage |-> [a \in 0..(blocks - 1) |->
                          [id |-> ULONG_MAX, data |-> getRandomBlock]],
          map |-> m, stash |-> << >>] :
            m \in [0..(blocks - 1) -> 0..(Shl(height - 1) - 1)]}

\* the ids handed to get and put, and the payloads handed to put
Ids(o) == 0..Min(MaxId, o.blocks - 1)
\* (the engine never looks into a payload: two values tell a payload from a stale one)
Payloads == {1, 2}

InitOram ==
    /\ oram \in ORAM(LogCapacity, BucketSize)
    /\ oret = [op |-> "new", block |-> 0, data |-> getRandomBlock, ok |-> TRUE,
               put |-> << >>, calls |-> 0]
    /\ adapter = NoAdapter
    /\ ret = NoRet
    /\ hist = NoHist
    /\ tree = NoTree

\* ORAM::put(block, data)
Put ==
    /\ oret.calls < MaxAccesses
    /\ \E block \in Ids(oram), data \in Payloads :
         \E r \in access(oram, FALSE, block, data) :
            /\ oram' = r.o
            /\ oret' = [op |-> "put", block |-> block, data |-> data, ok |-> r.ok,
                        put |-> (block :> data) @@ oret.put, calls |-> oret.calls + 1]
    /\ UNCHANGED <<adapter, ret, hist, tree>>

\* ORAM::get(block)
OramGet ==
    /\ oret.calls < MaxAccesses
    /\ \E block \in Ids(oram) :
         \E r \in access(oram, TRUE, block, getRandomBlock) :
            /\ oram' = r.o
            /\ oret' = [oret EXCEPT !.op = "get", !.block = block,
                                    !.data = r.returned, !.ok = r.ok,
                                    !.calls = @ + 1]
    /\ UNCHANGED <<adapter, ret, hist, tree>>

NextOram == Put \/ OramGet

SpecOram == InitOram /\ [][NextOram]_vars

\* C1: a get of an id returns the payload last put under that id, whatever
\* accesses to other ids (failed ones too) and leaf draws came in between.
C1_ReadYourWrite ==
    (oret.op = "get" /\ oret.block \in DOMAIN oret.put)
        => (oret.ok /\ oret.data = oret.put[oret.block])

\* C1 witness: a get returned the payload put under its id after another id was
\* put, with a block left over in the stash.
C1_Witness ==
    /\ oret.op = "get" /\ oret.ok
    /\ oret.block \in DOMAIN oret.put
    /\ oret.data = oret.put[oret.block]
    /\ Cardinality(DOMAIN oret.put) >= 2
    /\ DOMAIN oram.stash # {}

-----------------------------------------------------------------------------
(* The consistency check of the ORAM *)

\* the ids of the real blocks in the slots of the path of a leaf
PathIds(o, leaf) ==
    {o.storage[a].id : a \in Range(PathSlots(o, leaf))} \ {ULONG_MAX}

\* ORAM::checkConsistency: [o |-> the ORAM afterwards, ok |-> FALSE when it throws].
\* `block` runs over 0..blocks-1 and is both the slot address whose id is tested
\* against ULONG_MAX and the id looked up in the position map; at the first slot
\* that holds a real block the stash is emptied, the path of map[block] is read
\* into it, and the throw after the search loop is reached, found or not.
oramCheckConsistency(o) ==
    LET real == {a \in DOMAIN o.storage : o.storage[a].id # ULONG_MAX}
    IN  IF real = {} THEN [o |-> o, ok |-> TRUE]
        ELSE LET block == CHOOSE a \in real : \A b \in real : a <= b
             IN  [o |-> readPath([o EXCEPT !.stash = << >>], o.map[block]),
                  ok |-> FALSE]

\* oram->checkConsistency()
OramCheck ==
    /\ oret.op # "check"
    /\ LET r == oramCheckConsistency(oram)
       IN  /\ oram' = r.o
           /\ oret' = [oret EXCEPT !.op = "check", !.ok = r.ok]
    /\ UNCHANGED <<adapter, ret, hist, tree>>

NextOramCheck == Put \/ OramGet \/ OramCheck

SpecOramCheck == InitOram /\ [][NextOramCheck]_vars

\* C14: checkConsistency raises if and only if some logical block (an id that was
\* put) is not among the blocks on the path of the leaf the position map gives it;
\* it returns when every one is.
C14_CheckVerdict ==
    [][oret'.op = "check" =>
          (~oret'.ok <=> \E b \in DOMAIN oret.put : b \notin PathIds(oram, oram.map[b]))]_vars

-----------------------------------------------------------------------------
(* Invariants of the ORAM, under SpecOram *)

\* C15 as stated: after the construction and after every completed access, every
\* id that was put is in a storage bucket on the path from the root to the leaf
\* the position map gives it.
C15_OnPath ==
    (oret.op = "new" \/ oret.ok)
        => \A b \in DOMAIN oret.put : b \in PathIds(oram, oram.map[b])

\* C15 amended: every id that was put is in the stash or in a storage bucket on the
\* path from the root to the leaf the position map gives it.
C15_OnPathOrInStash ==
    \A b \in DOMAIN oret.put :
        b \in DOMAIN oram.stash \/ b \in PathIds(oram, oram.map[b])

\* C15 witness: after a completed put, one id that was put is left in the stash and
\* off its path, another is on its path and not in the stash.
C15_Witness ==
    /\ oret.op = "put" /\ oret.ok
    /\ \E b \in DOMAIN oret.put :
          b \in DOMAIN oram.stash /\ b \notin PathIds(oram, oram.map[b])
    /\ \E b \in DOMAIN oret.put :
          b \notin DOMAIN oram.stash /\ b \in PathIds(oram, oram.map[b])

\* the levels at which the slot at address a lies on the path of a leaf
LevelsOf(o, leaf, a) ==
    {l \in 0..(o.height - 1) : a \div o.Z = bucketForLevelLeaf(o, l, leaf)}

\* C18: a completed access of an id whose leaf was prev before the remap (1) leaves
\* every slot off the path of prev as it was, (2) has read the path of prev: a real
\* block that was on it is afterwards in the stash or again on it, (3) has mutated
\* before writing: after a put the accessed block carries the new payload wherever
\* it went, and (4) has written by the remapped position map: a block, the accessed
\* one with its new leaf included, is in the bucket at level l of the path only if
\* its current leaf shares that bucket with prev.
C18_AccessOrdering ==
    [][(oret'.op \in {"put", "get"} /\ oret'.ok) =>
        LET b    == oret'.block
            prev == oram.map[b]
            path == Range(PathSlots(oram, prev))
        IN  /\ \A a \in (DOMAIN oram.storage) \ path :
                  oram'.storage[a] = oram.storage[a]
            /\ \A e \in PathIds(oram, prev) :
                  e \in DOMAIN oram'.stash \/ e \in PathIds(oram', prev)
            /\ oret'.op = "put" =>
                  /\ b \in DOMAIN oram'.stash => oram'.stash[b] = oret'.data
                  /\ \A a \in path : oram'.storage[a].id = b
                                         => oram'.storage[a].data = oret'.data
                  /\ b \in DOMAIN oram'.stash \/ b \in PathIds(oram', prev)
            /\ \A a \in path : oram'.storage[a].id # ULONG_MAX =>
                  \A l \in LevelsOf(oram, prev, a) :
                      bucketForLevelLeaf(oram, l, oram'.map[oram'.storage[a].id])
                          = bucketForLevelLeaf(oram, l, prev)]_vars

\* C18 witness: after a completed put the accessed block is in the root bucket and
\* every leaf bucket is empty: the remap took the block off the leaf of the path
\* that was rewritten, and the write path kept it out of that leaf's bucket.
C18_Witness ==
    /\ oret.op = "put" /\ oret.ok
    /\ \E a \in DOMAIN oram.storage :
          a \div oram.Z = 1 /\ oram.storage[a].id = oret.block
    /\ \A a \in DOMAIN oram.storage :
          a \div oram.Z >= Shl(oram.height - 1) => oram.storage[a].id = ULONG_MAX

\* the real blocks in the bucket at level l of the path of a leaf
RealIn(o, l, leaf) ==
    {a \in DOMAIN o.storage :
        a \div o.Z = bucketForLevelLeaf(o, l, leaf) /\ o.storage[a].id # ULONG_MAX}

\* C19: after a completed access of an id whose leaf was prev, a slot of the path of
\* prev holds a real block (no block in two slots) or ULONG_MAX, at most Z real
\* ones to a bucket; a block is left in the stash only if every bucket of that path
\* that its leaf shares with prev holds Z real blocks; a non-empty stash means a
\* full root bucket.
C19_GreedyWritePath ==
    [][(oret'.op \in {"put", "get"} /\ oret'.ok) =>
        LET prev == oram.map[oret'.block]
            path == Range(PathSlots(oram, prev))
        IN  /\ \A l \in 0..(oram.height - 1) :
                  Cardinality(RealIn(oram', l, prev)) <= oram.Z
            /\ \A a1, a2 \in path :
                  (a1 # a2 /\ oram'.storage[a1].id # ULONG_MAX)
                      => oram'.storage[a1].id # oram'.storage[a2].id
            /\ \A a \in path : oram'.storage[a].id \notin DOMAIN oram'.stash
            /\ \A e \in DOMAIN oram'.stash : \A l \in 0..(oram.height - 1) :
                  bucketForLevelLeaf(oram, l, oram'.map[e])
                          = bucketForLevelLeaf(oram, l, prev)
                      => Cardinality(RealIn(oram', l, prev)) = oram.Z
            /\ DOMAIN oram'.stash # {}
                  => Cardinality(RealIn(oram', 0, prev)) = oram.Z]_vars

\* C19 witness: after a completed access a block is left in the stash, the root
\* bucket is full, and a leaf bucket holds a real block while another is empty.
C19_Witness ==
    /\ oret.op \in {"put", "get"} /\ oret.ok
    /\ DOMAIN oram.stash # {}
    /\ Cardinality(RealIn(oram, 0, 0)) = oram.Z
    /\ \E leaf \in Leaves(oram) : RealIn(oram, oram.height - 1, leaf) # {}
    /\ \E leaf \in Leaves(oram) : RealIn(oram, oram.height - 1, leaf) = {}

-----------------------------------------------------------------------------
(* The slot addresses an access touches *)

\* readPath: storage->get(block) for every slot of the path, whatever its id is
readPathTrace(o, leaf) ==
    [k \in 1..(o.height * o.Z) |-> [op |-> "get", address |-> PathSlots(o, leaf)[k]]]

\* writePath, one slot: storage->set(block, ...) with an entry of toInsert, or with
\* (ULONG_MAX, random payload) when toInsert is used up
writeSlotTraceMutSkipEmpty(address, id) ==
    IF id # ULONG_MAX THEN <<[op |-> "set", address |-> address]>>
    ELSE << >>
writeSlotTrace(address, id) ==
    IF id # ULONG_MAX THEN <<[op |-> "set", address |-> address]>>
    ELSE <<[op |-> "set", address |-> address]>>

\* writePath: the slots of the buckets of the path from level height-1 down to 0,
\* `storage` being the storage it leaves
writePathTrace(o, leaf, storage) ==
    Flatten([k \in 1..(o.height * o.Z) |->
        LET level == o.height - 1 - ((k - 1) \div o.Z)
            block == bucketForLevelLeaf(o, level, leaf) * o.Z + ((k - 1) % o.Z)
        IN  writeSlotTrace(block, storage[block].id)])

\* access: the trace of the outcome r of access(o, read, block, data)
accessTrace(o, block, r) ==
    readPathTrace(o, o.map[block])
        \o (IF r.ok THEN writePathTrace(o, o.map[block], r.o.storage) ELSE << >>)

InitTrace ==
    /\ oram \in ORAM(LogCapacity, BucketSize)
    /\ oret = [op |-> "new", block |-> 0, ok |-> TRUE, prev |-> 0, trace |-> << >>,
               calls |-> 0]
    /\ adapter = NoAdapter
    /\ ret = NoRet
    /\ hist = NoHist
    /\ tree = NoTree

\* ORAM::put(block, data), the storage calls recorded
PutTraced ==
    /\ oret.calls < MaxAccesses
    /\ \E block \in Ids(oram), data \in Payloads :
         \E r \in access(oram, FALSE, block, data) :
            /\ oram' = r.o
            /\ oret' = [op |-> "put", block |-> block, ok |-> r.ok,
                        prev |-> oram.map[block],
                        trace |-> accessTrace(oram, block, r),
                        calls |-> oret.calls + 1]
    /\ UNCHANGED <<adapter, ret, hist, tree>>

\* ORAM::get(block), the storage calls recorded
GetTraced ==
    /\ oret.calls < MaxAccesses
    /\ \E block \in Ids(oram) :
         \E r \in access(oram, TRUE, block, getRandomBlock) :
            /\ oram' = r.o
            /\ oret' = [op |-> "get", block |-> block, ok |-> r.ok,
                        prev |-> oram.map[block],
                        trace |-> accessTrace(oram, block, r),
                        calls |-> oret.calls + 1]
    /\ UNCHANGED <<adapter, ret, hist, tree>>

NextTrace == PutTraced \/ GetTraced

SpecTrace == InitTrace /\ [][NextTrace]_vars

\* the trace the claim gives for a previous leaf: the Z slots of the buckets of
\* the path at levels 0..H-1 read, then those at levels H-1..0 written
TraceOfLeaf(o, prev) ==
    [k \in 1..(2 * o.height * o.Z) |->
        IF k <= o.height * o.Z
        THEN [op |-> "get",
              address |-> bucketForLevelLeaf(o, (k - 1) \div o.Z, prev) * o.Z
                              + ((k - 1) % o.Z)]
        ELSE LET j == k - o.height * o.Z
             IN  [op |-> "set",
                  address |-> bucketForLevelLeaf(o, o.height - 1 - ((j - 1) \div o.Z),
                                                 prev) * o.Z + ((j - 1) % o.Z)]]

\* C23: the slot addresses a successful access touches are a function of the
\* previous leaf of the accessed id only: H*Z reads down the path, then H*Z writes
\* up the same path, whether it is a get or a put and whatever the id, the payload
\* and the stash are.
C23_TraceOfLeaf ==
    (oret.op \in {"put", "get"} /\ oret.ok)
        => /\ oret.trace = TraceOfLeaf(oram, oret.prev)
           /\ Len(oret.trace) = 2 * oram.height * oram.Z

\* C23 witness: a successful get that left a block in the stash and a rewritten
\* bucket empty made the trace of its previous leaf.
C23_Witness ==
    /\ oret.op = "get" /\ oret.ok
    /\ DOMAIN oram.stash # {}
    /\ \E k \in DOMAIN oret.trace :
          oret.trace[k].op = "set" /\ oram.storage[oret.trace[k].address].id = ULONG_MAX
    /\ oret.trace = TraceOfLeaf(oram, oret.prev)

-----------------------------------------------------------------------------
(* Accesses that cannot fail: every get is of an id that was put *)

\* ORAM::get(block), block having been put
GetOfPut == OramGet /\ oret'.block \in DOMAIN oret.put

NextConserve == Put \/ GetOfPut

SpecConserve == InitOram /\ [][NextConserve]_vars

\* the slots that hold the id b
SlotsOf(o, b) == {a \in DOMAIN o.storage : o.storage[a].id = b}

\* C24: when no access failed, every id that was put is held exactly once: in the
\* stash, or in one slot of a bucket on the path of the leaf the position map gives
\* it, not in both nor in two slots; an id that was never put is in no slot and
\* not in the stash.
C24_Conservation ==
    /\ oret.ok
    /\ \A b \in DOMAIN oret.put :
          /\ Cardinality(SlotsOf(oram, b)) + (IF b \in DOMAIN oram.stash THEN 1 ELSE 0) = 1
          /\ SlotsOf(oram, b) \subseteq Range(PathSlots(oram, oram.map[b]))
    /\ \A b \in (DOMAIN oram.map) \ (DOMAIN oret.put) :
          SlotsOf(oram, b) = {} /\ b \notin DOMAIN oram.stash
    /\ DOMAIN oram.stash \subseteq DOMAIN oret.put
    /\ \A a \in DOMAIN oram.storage :
          oram.storage[a].id \in (DOMAIN oret.put) \cup {ULONG_MAX}

\* C24 witness: after a get of an id that was put, one id that was put is in the
\* stash only and another is in one slot only, an id never put being nowhere.
C24_Witness ==
    /\ oret.op = "get" /\ oret.ok
    /\ \E b, e \in DOMAIN oret.put :
          /\ b # e
          /\ b \in DOMAIN oram.stash /\ SlotsOf(oram, b) = {}
          /\ e \notin DOMAIN oram.stash /\ Cardinality(SlotsOf(oram, e)) = 1
    /\ (DOMAIN oram.map) \ (DOMAIN oret.put) # {}

-----------------------------------------------------------------------------
(* The bucket geometry at the width of the machine's integers *)

\* An unsigned long is modelled as the set of the positions of its one bits.
\* the widths of int and of ulong
IntBits == 32
ULongBits == 64

\* heights up to MaxHeight, and those at which 1 << (height - 1) reaches the sign
\* bit of an int
MaxHeight == 4
Heights == (1..MaxHeight) \cup {IntBits - 1, IntBits}

\* (ulong)(1 << n), 1 being an int: the possible values. 1 << 31 is INT_MIN,
\* sign-extended by the conversion; a shift by the width or more is undefined
\* (the count taken modulo the width, or zero)
ShlInt(n) ==
    IF n < IntBits - 1 THEN {{n}}
    ELSE IF n = IntBits - 1 THEN {(IntBits - 1)..(ULongBits - 1)}
    ELSE {{n % IntBits}, {}}

\* a + b modulo 2^64, from bit i on with a carry
RECURSIVE AddFrom(_, _, _, _)
AddFrom(a, b, i, carry) ==
    IF i >= ULongBits THEN {}
    ELSE LET n == (IF i \in a THEN 1 ELSE 0) + (IF i \in b THEN 1 ELSE 0)
                      + (IF carry THEN 1 ELSE 0)
         IN  (IF n % 2 = 1 THEN {i} ELSE {}) \cup AddFrom(a, b, i + 1, n >= 2)

\* a >> n
Shr(a, n) == {i - n : i \in {j \in a : j >= n}}

\* bucketForLevelLeaf at machine width: the possible results
bucketForLevelLeafBits(height, level, leaf) ==
    {Shr(AddFrom(leaf, one, 0, FALSE), height - 1 - level) : one \in ShlInt(height - 1)}

\* the leaves tried at a height: those below 2^(height-1) whose one bits are among
\* the two lowest and the two highest positions
LeafBits(height) == SUBSET ({0, 1, height - 3, height - 2} \cap (0..(height - 2)))

InitGeometry ==
    /\ oram \in {[built |-> FALSE, height |-> h] : h \in Heights}
    /\ oret = [op |-> "none"]
    /\ adapter = NoAdapter
    /\ ret = NoRet
    /\ hist = NoHist
    /\ tree = NoTree

\* bucketForLevelLeaf(level, leaf)
BucketForLevelLeaf ==
    /\ oret.op = "none"
    /\ \E level \in 0..(oram.height - 1), leaf \in LeafBits(oram.height) :
         \E bucket \in bucketForLevelLeafBits(oram.height, level, leaf) :
            oret' = [op |-> "bucket", level |-> level, leaf |-> leaf, bucket |-> bucket]
    /\ UNCHANGED <<oram, adapter, ret, hist, tree>>

\* a < b, for unsigned longs
Below(a, b) == \E i \in b \ a : \A j \in a \ b : j < i

\* getRandomULong(max): a value below max
getRandomULongBits(max, candidates) == {x \in candidates : Below(x, max)}

\* map->set(i, getRandomULong(1 << (this->height - 1))): the leaf drawn is one of
\* the leaves tried, or the first value past them, 2^(height-1)
DrawLeaf ==
    /\ oret.op = "none"
    /\ \E max \in ShlInt(oram.height - 1) :
         \E leaf \in getRandomULongBits(max, LeafBits(oram.height)
                                                \cup {{oram.height - 1}}) :
            oret' = [op |-> "leaf", leaf |-> leaf]
    /\ UNCHANGED <<oram, adapter, ret, hist, tree>>

NextGeometry == BucketForLevelLeaf \/ DrawLeaf

SpecGeometry == InitGeometry /\ [][NextGeometry]_vars

\* C16: for every height H >= 1, leaf below 2^(H-1) and level below H:
\* bucketForLevelLeaf(H-1, leaf) = leaf + 2^(H-1), bucketForLevelLeaf(0, leaf) = 1,
\* the bucket at a level is the bucket at the next level shifted right by one, and
\* every bucket index is in [1, 2^H).
C16_Geometry ==
    oret.op = "bucket"
        => /\ oret.level = oram.height - 1
                 => oret.bucket = oret.leaf \cup {oram.height - 1}
           /\ oret.level = 0 => oret.bucket = {0}
           /\ oret.level < oram.height - 1
                 => oret.bucket \in
                      {Shr(b, 1) : b \in bucketForLevelLeafBits(oram.height,
                                                                oret.level + 1, oret.leaf)}
           /\ oret.bucket # {}
           /\ \A i \in oret.bucket : i < oram.height

\* C20, the range of the position map: a leaf that the constructor or an access
\* hands to the position map is in [0, 2^(H-1)).
C20_LeafRange ==
    oret.op = "leaf" => \A i \in oret.leaf : i < oram.height - 1

\* C20, the rest, under SpecOram: after the construction every slot carries
\* ULONG_MAX; the position map is defined on every id in [0, 2^H * Z); an access
\* changes the entry of the accessed id only.
C20_InitialStorage ==
    oret.op = "new" =>
        /\ DOMAIN oram.storage = 0..(Shl(oram.height) * oram.Z - 1)
        /\ \A a \in DOMAIN oram.storage : oram.storage[a].id = ULONG_MAX
C20_MapTotal ==
    /\ DOMAIN oram.map = 0..(Shl(oram.height) * oram.Z - 1)
    /\ \A b \in DOMAIN oram.map : oram.map[b] \in 0..(Shl(oram.height - 1) - 1)
C20_MapLocal ==
    [][\A b \in DOMAIN oram.map : b # oret'.block => oram'.map[b] = oram.map[b]]_vars

====
